---- MODULE Spec2Model ----
(***************************************************************************)
(* kubetrbl: the generic state machine (package fsm) and the diagnostic     *)
(* pipeline built on it (type Kubetrbl, type K8sContext).                   *)
(*                                                                         *)
(* The program is sequential and recursive: a state's Enter callback calls  *)
(* FSM.Change for the next state before it returns, and the error handler   *)
(* calls FSM.Change again.  The model therefore keeps the call stack of the *)
(* main goroutine explicitly; every action executes the frame on top of it. *)
(* A frame below the top always stands at the point where its call returns. *)
(***************************************************************************)
EXTENDS Integers, Sequences, FiniteSets, TLC

VARIABLES
    State,           \* FSM.State: name of the current state, "" when none
    StateDirectory,  \* FSM.StateDirectory: name -> [Enter, Update, Exit]
    ErrorHandler,    \* FSM.ErrorHandler: "default" (NewFSM) or "kubetrbl" (NewKubetrbl)
    stack,           \* call stack of the main goroutine, innermost frame last
    status,          \* "running", "panic" (Go panic, process dead), "overflow"
    out,             \* the last block written to the terminal
    eof,             \* stdin has reached end-of-file
    k8sContext,      \* Kubetrbl.k8sContext is non-nil
    config,          \* K8sContext.config is set
    k8sClient,       \* K8sContext.k8sClient is set
    namespace,       \* K8sContext.namespace
    pods,            \* K8sContext.pods: the pod snapshot
    svc,             \* Kubetrbl.svc
    svcPort,         \* Kubetrbl.svcPort
    controller,      \* Kubetrbl.controller: <<>> is nil, <<d>> points to d
    containerPort,   \* Kubetrbl.containerPort
    podList,         \* Kubetrbl.podList
    deployments,     \* the namespace's Deployments as of the last Get
    tunnels          \* the port-forward goroutines started so far

fsmVars == <<State, StateDirectory, ErrorHandler, stack, status, out>>
sessionVars == <<eof, k8sContext, config, k8sClient, namespace, pods, svc, svcPort,
                 controller, containerPort, podList, deployments, tunnels>>
vars == <<State, StateDirectory, ErrorHandler, stack, status, out,
          eof, k8sContext, config, k8sClient, namespace, pods, svc, svcPort,
          controller, containerPort, podList, deployments, tunnels>>

(***************************************************************************)
(* Bounds of the exploration.                                               *)
(***************************************************************************)
\* Nested error-handler activations the stack holds before it overflows.
MaxErrNest == 1
\* Pods in a namespace.
MaxPods == 2

Nil == "nil"

(***************************************************************************)
(* Frames and the stack.                                                    *)
(***************************************************************************)
\* fn: the function executing; pc: where it stands; arg: the state name it was
\* called with (Change) or is a callback of; hook: which callback of that state
\* it is; err: the function's err variable; i: the loop index of
\* validateContainerPort; code: resp.StatusCode of its last response.
NewFrame(fn, arg, hook) ==
    [fn |-> fn, pc |-> "start", arg |-> arg, hook |-> hook, err |-> Nil, i |-> 0,
     code |-> 0]

Top == stack[Len(stack)]
Running == status = "running" /\ stack # <<>>
Pop(stk) == SubSeq(stk, 1, Len(stk) - 1)
SetTop(stk, f) == [stk EXCEPT ![Len(stk)] = f]
\* The top frame calls g and will resume at pc.
CallFrom(stk, pc, g) == Append(SetTop(stk, [stk[Len(stk)] EXCEPT !.pc = pc]), g)
ErrNest(stk) == Cardinality({k \in 1..Len(stk) : stk[k].fn = "ErrorHandler"})

\* Go's map index: the zero State (three nil callbacks) for a missing key.
ZeroState == [Enter |-> Nil, Update |-> Nil, Exit |-> Nil]
Lookup(dir, name) == IF name \in DOMAIN dir THEN dir[name] ELSE ZeroState


Say(kind, items) == [kind |-> kind, items |-> items]

(***************************************************************************)
(* Returning from a callback to FSM.Change or FSM.Update, which both go on  *)
(* with `if err != nil { f.ErrorHandler(f, err) }`.  The handler's frame    *)
(* keeps the error and, in arg and hook, the callback that returned it.  An *)
(* activation of the error handler beyond MaxErrNest overflows the stack.   *)
(***************************************************************************)
Return(e) ==
    LET below == Pop(stack)
        caller == below[Len(below)]
    IN  IF e = Nil
        THEN stack' = below /\ status' = status
        ELSE IF ErrNest(below) >= MaxErrNest
        THEN stack' = stack /\ status' = "overflow"
        ELSE /\ stack' = Append(SetTop(below, [caller EXCEPT !.err = e]),
                                [NewFrame("ErrorHandler", Top.arg, Top.hook) EXCEPT !.err = e])
             /\ status' = status

(***************************************************************************)
(* package fsm                                                              *)
(***************************************************************************)
\* NewFSM: no state, an empty directory, the printing error handler.
NewFSM ==
    /\ State = ""
    /\ StateDirectory = [n \in {} |-> ZeroState]
    /\ stack = <<>>
    /\ status = "running"
    /\ out = Say("", <<>>)

\* Change, lines 61-66: Exit of the current state, if it has one.
ChangeExit ==
    /\ Running /\ Top.fn = "Change" /\ Top.pc = "start"
    /\ LET cb == Lookup(StateDirectory, State).Exit
       IN  IF State # "" /\ cb # Nil
           THEN stack' = CallFrom(stack, "lookup", NewFrame(cb, State, "Exit"))
           ELSE stack' = SetTop(stack, [Top EXCEPT !.pc = "lookup"])
    /\ UNCHANGED <<State, StateDirectory, ErrorHandler, status, out>>
    /\ UNCHANGED sessionVars

\* A lookup that finds every name: Change with the check of hasKey lost.
hasKey_Always(name) == TRUE

\* Change, lines 68-69: _, hasKey := f.StateDirectory[stateName].
hasKey(name) == name \in DOMAIN StateDirectory

\* Change, lines 68-81: the directory lookup, the assignment, Enter.
ChangeEnter ==
    /\ Running /\ Top.fn = "Change" /\ Top.pc = "lookup"
    /\ IF ~hasKey(Top.arg)
       THEN /\ status' = "panic"
            /\ out' = Say("FSM object has no state", <<Top.arg>>)
            /\ UNCHANGED <<State, stack>>
       ELSE /\ State' = Top.arg
            /\ LET cb == Lookup(StateDirectory, Top.arg).Enter
               IN  IF Top.arg # "" /\ cb # Nil
                   THEN stack' = CallFrom(stack, "ret", NewFrame(cb, Top.arg, "Enter"))
                   ELSE stack' = SetTop(stack, [Top EXCEPT !.pc = "ret"])
            /\ UNCHANGED <<status, out>>
    /\ UNCHANGED <<StateDirectory, ErrorHandler>>
    /\ UNCHANGED sessionVars

\* Update treating the missing state as an error for the error handler.
Update_Raise ==
    /\ Running /\ Top.fn = "Update" /\ Top.pc = "start"
    /\ LET cb == Lookup(StateDirectory, State).Update
       IN  IF State # "" /\ cb # Nil
           THEN stack' = CallFrom(stack, "ret", NewFrame(cb, State, "Update"))
           ELSE stack' = CallFrom(stack, "ret",
                                  [NewFrame("ErrorHandler", State, "Update")
                                     EXCEPT !.err = "no active state"])
    /\ out' = out
    /\ UNCHANGED <<State, StateDirectory, ErrorHandler, status>>
    /\ UNCHANGED sessionVars

\* Update, lines 30-39.
Update ==
    /\ Running /\ Top.fn = "Update" /\ Top.pc = "start"
    /\ LET cb == Lookup(StateDirectory, State).Update
       IN  IF State # "" /\ cb # Nil
           THEN /\ stack' = CallFrom(stack, "ret", NewFrame(cb, State, "Update"))
                /\ out' = out
           ELSE /\ stack' = SetTop(stack, [Top EXCEPT !.pc = "ret"])
                /\ out' = Say("Update() called on FSM without active state.", <<>>)
    /\ UNCHANGED <<State, StateDirectory, ErrorHandler, status>>
    /\ UNCHANGED sessionVars

\* An error handler that starts the pipeline over instead of re-entering the
\* state that failed.
HandleError_Restart ==
    /\ Running /\ Top.fn = "ErrorHandler" /\ Top.pc = "start"
    /\ IF ErrorHandler = "kubetrbl"
       THEN /\ out' = Say("An error occurred when troubleshooting your Kubernetes deployment.",
                          <<Top.err>>)
            /\ stack' = CallFrom(stack, "ret", NewFrame("Change", "welcome", ""))
       ELSE /\ out' = Say("Error: ", <<Top.err>>)
            /\ stack' = SetTop(stack, [Top EXCEPT !.pc = "ret"])
    /\ UNCHANGED <<State, StateDirectory, ErrorHandler, status>>
    /\ UNCHANGED sessionVars

\* The error handler: NewFSM's prints; NewKubetrbl's prints and re-enters.
HandleError ==
    /\ Running /\ Top.fn = "ErrorHandler" /\ Top.pc = "start"
    /\ IF ErrorHandler = "kubetrbl"
       THEN /\ out' = Say("An error occurred when troubleshooting your Kubernetes deployment.",
                          <<Top.err>>)
            /\ stack' = CallFrom(stack, "ret", NewFrame("Change", State, ""))
       ELSE /\ out' = Say("Error: ", <<Top.err>>)
            /\ stack' = SetTop(stack, [Top EXCEPT !.pc = "ret"])
    /\ UNCHANGED <<State, StateDirectory, ErrorHandler, status>>
    /\ UNCHANGED sessionVars

\* Change, Update or the error handler returns to its caller.
FsmReturn ==
    /\ Running /\ Top.fn \in {"Change", "Update", "ErrorHandler"} /\ Top.pc = "ret"
    /\ stack' = Pop(stack)
    /\ UNCHANGED <<State, StateDirectory, ErrorHandler, status, out>>
    /\ UNCHANGED sessionVars

\* Register, lines 42-44.
Register(name, state) ==
    /\ status = "running" /\ stack = <<>>
    /\ StateDirectory' = (name :> state) @@ StateDirectory
    /\ UNCHANGED <<State, ErrorHandler, stack, status, out>>
    /\ UNCHANGED sessionVars

\* Unregister, lines 47-49.
Unregister(name) ==
    /\ status = "running" /\ stack = <<>>
    /\ StateDirectory' = [n \in DOMAIN StateDirectory \ {name} |-> StateDirectory[n]]
    /\ UNCHANGED <<State, ErrorHandler, stack, status, out>>
    /\ UNCHANGED sessionVars

\* HasState, lines 52-55.
HasState(name) == name \in DOMAIN StateDirectory

(***************************************************************************)
(* A client of package fsm alone: it registers and unregisters states whose *)
(* callbacks are arbitrary fallible functions, and calls Change and Update. *)
(***************************************************************************)
Names == {"a", "b"}
Callbacks == {Nil, "cb"}
States == [Enter : Callbacks, Update : Callbacks, Exit : Callbacks]

ClientChange(name) ==
    /\ status = "running" /\ stack = <<>>
    /\ stack' = <<NewFrame("Change", name, "")>>
    /\ UNCHANGED <<State, StateDirectory, ErrorHandler, status, out>>
    /\ UNCHANGED sessionVars

ClientUpdate ==
    /\ status = "running" /\ stack = <<>>
    /\ stack' = <<NewFrame("Update", "", "")>>
    /\ UNCHANGED <<State, StateDirectory, ErrorHandler, status, out>>
    /\ UNCHANGED sessionVars

\* A callback of the client: it returns nil or an error.
Callback ==
    /\ Running /\ Top.fn = "cb" /\ Top.pc = "start"
    /\ \E e \in {Nil, "callback failed"} : Return(e)
    /\ UNCHANGED <<State, StateDirectory, ErrorHandler, out>>
    /\ UNCHANGED sessionVars

(***************************************************************************)
(* Terminal input: bufio.Reader.ReadString, strings.TrimSpace, strconv.Atoi.*)
(* A line is the sequence of its characters, the newline included.          *)
(***************************************************************************)
Lines == { <<"0", "\n">>, <<"1", "\n">>, <<"7", "\n">>, <<"-", "1", "\n">>,
           <<"x", "\n">>, <<" ", "1", " ", "\n">>, <<"\n">> }
\* What one read may find on stdin: a whole line, or the end of the input
\* (nothing, or a last line that has no newline).
Inputs == Lines \cup { <<>>, <<"1">> }

Spaces == {" ", "\n", "\t", "\r"}
Digits == <<"0", "1", "2", "3", "4", "5", "6", "7", "8", "9">>
IsDigit(c) == \E d \in 1..Len(Digits) : Digits[d] = c
DigitVal(c) == (CHOOSE d \in 1..Len(Digits) : Digits[d] = c) - 1

RECURSIVE TrimLeft(_)
TrimLeft(s) == IF s # <<>> /\ Head(s) \in Spaces THEN TrimLeft(Tail(s)) ELSE s
RECURSIVE TrimRight(_)
TrimRight(s) ==
    IF s # <<>> /\ s[Len(s)] \in Spaces THEN TrimRight(SubSeq(s, 1, Len(s) - 1)) ELSE s
TrimSpace(s) == TrimRight(TrimLeft(s))

RECURSIVE Decimal(_, _)
Decimal(s, acc) == IF s = <<>> THEN acc ELSE Decimal(Tail(s), 10 * acc + DigitVal(Head(s)))

\* strconv.Atoi: an optional sign, then one or more decimal digits.
Atoi(s) ==
    LET signed == s # <<>> /\ Head(s) \in {"+", "-"}
        body == IF signed THEN Tail(s) ELSE s
    IN  IF body = <<>> \/ \E k \in 1..Len(body) : ~IsDigit(body[k])
        THEN [val |-> 0, err |-> "invalid syntax"]
        ELSE [val |-> IF signed /\ Head(s) = "-" THEN 0 - Decimal(body, 0)
                      ELSE Decimal(body, 0),
              err |-> Nil]

\* readString, lines 417-423, on what the read finds.
readString(in) ==
    IF in = <<>> \/ in[Len(in)] # "\n"
    THEN [str |-> <<>>, err |-> "EOF"]
    ELSE [str |-> TrimSpace(in), err |-> Nil]

\* readInt, lines 425-431.
readInt(in) ==
    LET r == readString(in)
    IN  IF r.err # Nil THEN [val |-> 0, err |-> r.err] ELSE Atoi(r.str)

\* The reads stdin can still deliver.
Readable == IF eof THEN {<<>>} ELSE Inputs
AtEOF(in) == eof \/ in = <<>> \/ in[Len(in)] # "\n"

(***************************************************************************)
(* Cluster objects.  A label set or selector is kept as its value for the   *)
(* key app.kubernetes.io/name, "" when the key is absent (Go's map index).  *)
(***************************************************************************)
Cond(type, st) == [type |-> type, status |-> st]
PodKinds ==
    { [phase |-> "Pending", conditions |-> <<>>, label |-> "web"],
      [phase |-> "Running", conditions |-> <<Cond("Ready", "False")>>, label |-> "web"],
      [phase |-> "Running",
       conditions |-> <<Cond("ContainersReady", "False"), Cond("Ready", "True")>>,
       label |-> "web"],
      [phase |-> "Running", conditions |-> <<>>, label |-> "api"],
      [phase |-> "Failed", conditions |-> <<Cond("Ready", "False")>>, label |-> "api"] }
PodName(k) == "pod-" \o ToString(k)
\* What listing the pods of a namespace may return: pod names are unique.
NamePods(f) ==
    [k \in DOMAIN f |-> [name |-> PodName(k), phase |-> f[k].phase,
                         conditions |-> f[k].conditions, label |-> f[k].label]]
PodSnapshots == { NamePods(f) : f \in UNION { [1..m -> PodKinds] : m \in 0..MaxPods } }

\* What listing the namespaces may return.
NamespaceLists == { <<>>, <<"default">>, <<"default", "prod">> }

IntPort(n) == [Type |-> "Int", IntVal |-> n, StrVal |-> ""]
StrPort(s) == [Type |-> "String", IntVal |-> 0, StrVal |-> s]
SvcPort(name, target) == [name |-> name, targetPort |-> target]
WebSvc == [name |-> "web-svc", selector |-> "web",
           ports |-> <<SvcPort("http", StrPort("http"))>>]
ApiSvc == [name |-> "api-svc", selector |-> "api",
           ports |-> <<SvcPort("metrics", IntPort(9100)), SvcPort("http", StrPort("web"))>>]
BareSvc == [name |-> "bare-svc", selector |-> "", ports |-> <<>>]
ServiceLists == { <<>>, <<WebSvc>>, <<ApiSvc, WebSvc>>, <<BareSvc, WebSvc>> }

CPort(name, n) == [name |-> name, containerPort |-> n]
Deployment(name, label, containers) ==
    [name |-> name, label |-> label, containers |-> containers]
DepA == Deployment("web", "web", << <<CPort("http", 8080)>>, <<CPort("http", 9090)>> >>)
DepB == Deployment("api", "web", << <<>>, <<CPort("metrics", 9100), CPort("web", 8443)>> >>)
DepC == Deployment("web", "api", <<>>)
\* What the namespace may hold when a Deployment is looked up: names are unique.
DeploymentIndexes == { {}, {DepA}, {DepB}, {DepC}, {DepA, DepB}, {DepB, DepC} }

\* The zero values of the session's fields.
ZeroSvc == [name |-> "", selector |-> "", ports |-> <<>>]
ZeroSvcPort == SvcPort("", IntPort(0))
ZeroContainerPort == CPort("", 0)

(***************************************************************************)
(* type K8sContext                                                          *)
(***************************************************************************)
IsPending(pod) == pod.phase = "Pending"
IsNonrunning(pod) == pod.phase # "Running"
\* The test of GetNotReadyPods without the check of the condition's type.
IsNotReady_AnyCondition(c) == c.status # "True"
IsNotReady(c) == c.type = "Ready" /\ c.status # "True"

RECURSIVE GetPendingPods(_)
\* GetPendingPods, lines 98-107: the names, in snapshot order.
GetPendingPods(ps) ==
    IF ps = <<>> THEN <<>>
    ELSE (IF IsPending(Head(ps)) THEN <<Head(ps).name>> ELSE <<>>)
         \o GetPendingPods(Tail(ps))

RECURSIVE GetNonrunningPods(_)
\* GetNonrunningPods, lines 109-118.
GetNonrunningPods(ps) ==
    IF ps = <<>> THEN <<>>
    ELSE (IF IsNonrunning(Head(ps)) THEN <<Head(ps).name>> ELSE <<>>)
         \o GetNonrunningPods(Tail(ps))

RECURSIVE NotReadyOf(_, _)
\* The inner loop of GetNotReadyPods: the pod's name once per failing condition.
NotReadyOf(name, cs) ==
    IF cs = <<>> THEN <<>>
    ELSE (IF IsNotReady(Head(cs)) THEN <<name>> ELSE <<>>) \o NotReadyOf(name, Tail(cs))
RECURSIVE GetNotReadyPods(_)
\* GetNotReadyPods, lines 120-131.
GetNotReadyPods(ps) ==
    IF ps = <<>> THEN <<>>
    ELSE NotReadyOf(Head(ps).name, Head(ps).conditions) \o GetNotReadyPods(Tail(ps))

(***************************************************************************)
(* type Kubetrbl                                                            *)
(***************************************************************************)
Pipeline == << "welcome", "getKubeConfig", "getNamespace", "countPods",
               "checkPendingPods", "checkRunningPods", "checkReadyPods",
               "getServiceName", "getServicePort", "getControllerWorkload",
               "getContainerPort", "getControllerPods", "validateContainerPort",
               "finish" >>
Handlers == { Pipeline[k] : k \in 1..Len(Pipeline) } \cup {"createK8sClient"}

\* The registrations of NewKubetrbl, lines 133-146.
Registered(name) ==
    [Enter |-> name,
     Update |-> IF name = "getKubeConfig" THEN "createK8sClient" ELSE Nil,
     Exit |-> Nil]

\* NewKubetrbl, lines 119-151: the machine, its error handler, the 14 states,
\* and a session of zero values.
NewKubetrbl ==
    /\ State = ""
    /\ StateDirectory = [n \in { Pipeline[k] : k \in 1..Len(Pipeline) } |-> Registered(n)]
    /\ ErrorHandler = "kubetrbl"
    /\ stack = <<>>
    /\ status = "running"
    /\ out = Say("", <<>>)
    /\ eof = FALSE
    /\ k8sContext = FALSE /\ config = FALSE /\ k8sClient = FALSE
    /\ namespace = "" /\ pods = <<>>
    /\ svc = ZeroSvc /\ svcPort = ZeroSvcPort
    /\ controller = <<>> /\ containerPort = ZeroContainerPort
    /\ podList = <<>>
    /\ deployments = {}
    /\ tunnels = <<>>

fsmFields == <<State, StateDirectory, ErrorHandler>>
In(name) == Running /\ Top.fn = name /\ Top.pc = "start"
\* The handler calls k.fsm.Change(next) and returns nil once that returns.
Advance(next) ==
    /\ stack' = CallFrom(stack, "ret", NewFrame("Change", next, ""))
    /\ status' = status
Panic == stack' = stack /\ status' = "panic"

\* Start, lines 154-156.
Start ==
    /\ status = "running" /\ stack = <<>> /\ State = ""
    /\ stack' = <<NewFrame("Change", "welcome", "")>>
    /\ UNCHANGED <<State, StateDirectory, ErrorHandler, status, out>>
    /\ UNCHANGED sessionVars

\* A handler whose call of Change or Update has returned returns nil.
HandlerReturn ==
    /\ Running /\ Top.fn \in Handlers /\ Top.pc = "ret"
    /\ Return(Nil)
    /\ UNCHANGED <<State, StateDirectory, ErrorHandler, out>>
    /\ UNCHANGED sessionVars

\* finish starting the pipeline over.
finish_Restart ==
    /\ In("finish")
    /\ out' = Say("See ya!", <<>>)
    /\ Advance("welcome")
    /\ UNCHANGED fsmFields
    /\ UNCHANGED sessionVars

\* finish, lines 158-161.
finish ==
    /\ In("finish")
    /\ out' = Say("See ya!", <<>>)
    /\ Return(Nil)
    /\ UNCHANGED fsmFields
    /\ UNCHANGED sessionVars

\* welcome changing to getNamespace: the connection step left out.
welcome_Skip ==
    /\ In("welcome")
    /\ out' = Say("Wecome to Kubetrbl.", <<>>)
    /\ Advance("getNamespace")
    /\ UNCHANGED fsmFields
    /\ UNCHANGED sessionVars

\* welcome, lines 163-170.
welcome ==
    /\ In("welcome")
    /\ out' = Say("Wecome to Kubetrbl.", <<>>)
    /\ Advance("getKubeConfig")
    /\ UNCHANGED fsmFields
    /\ UNCHANGED sessionVars

\* getKubeConfig, lines 172-182.  NewK8sContext gives a context of zero values;
\* the path it keeps only feeds InitClient, whose outcome is the file system's.
getKubeConfig ==
    /\ In("getKubeConfig")
    /\ out' = Say("Enter the location of your KUBECONFIG file: ", <<>>)
    /\ \E in \in Readable :
         LET r == readString(in)
         IN  /\ eof' = AtEOF(in)
             /\ IF r.err # Nil
                THEN /\ Return(r.err)
                     /\ UNCHANGED <<k8sContext, config, k8sClient, namespace, pods>>
                ELSE /\ k8sContext' = TRUE
                     /\ config' = FALSE /\ k8sClient' = FALSE
                     /\ namespace' = "" /\ pods' = <<>>
                     /\ stack' = CallFrom(stack, "ret", NewFrame("Update", "", ""))
                     /\ status' = status
    /\ UNCHANGED fsmFields
    /\ UNCHANGED <<svc, svcPort, controller, containerPort, podList, deployments, tunnels>>

\* createK8sClient, lines 184-191, with InitClient (BuildConfigFromFlags, then
\* NewForConfig).
createK8sClient ==
    /\ In("createK8sClient")
    /\ \/ /\ Return("config error")
          /\ UNCHANGED <<config, k8sClient>>
       \/ /\ Return("client error")
          /\ config' = TRUE /\ k8sClient' = FALSE
       \/ /\ config' = TRUE /\ k8sClient' = TRUE
          /\ Advance("getNamespace")
    /\ UNCHANGED fsmFields
    /\ UNCHANGED <<out, eof, k8sContext, namespace, pods, svc, svcPort, controller,
                   containerPort, podList, deployments, tunnels>>

Names_(items) == [k \in DOMAIN items |-> items[k].name]

\* getNamespace, lines 193-210, with getNamespaces.
getNamespace ==
    /\ In("getNamespace")
    /\ \/ /\ Return("api error")
          /\ UNCHANGED <<out, eof, namespace>>
       \/ \E nms \in NamespaceLists, in \in Readable :
            LET answer == readInt(in)
            IN  /\ out' = Say("Available namespaces:", nms)
                /\ eof' = AtEOF(in)
                /\ IF answer.err # Nil
                   THEN Return(answer.err) /\ UNCHANGED namespace
                   ELSE IF answer.val \notin 0..(Len(nms) - 1)
                   THEN Panic /\ UNCHANGED namespace
                   ELSE namespace' = nms[answer.val + 1] /\ Advance("countPods")
    /\ UNCHANGED fsmFields
    /\ UNCHANGED <<k8sContext, config, k8sClient, pods, svc, svcPort, controller,
                   containerPort, podList, deployments, tunnels>>

\* countPods, lines 212-220, with GetPods, which stores the snapshot.
countPods ==
    /\ In("countPods")
    /\ \/ /\ Return("api error")
          /\ UNCHANGED <<out, pods>>
       \/ \E snapshot \in PodSnapshots :
            /\ pods' = snapshot
            /\ out' = Say("There are %d pods in the cluster+namespace.",
                          <<ToString(Len(snapshot))>>)
            /\ Advance("checkPendingPods")
    /\ UNCHANGED fsmFields
    /\ UNCHANGED <<eof, k8sContext, config, k8sClient, namespace, svc, svcPort,
                   controller, containerPort, podList, deployments, tunnels>>

\* A check that reports the first affected pod only.
Check_FirstOnly(affected, label, okText, next) ==
    IF Len(affected) > 0
    THEN out' = Say(label, <<affected[1]>>) /\ Return(Nil)
    ELSE out' = Say(okText, <<>>) /\ Advance(next)

\* The three health checks report the affected pods and stay, or advance.
Check(affected, label, okText, next) ==
    IF Len(affected) > 0
    THEN out' = Say(label, affected) /\ Return(Nil)
    ELSE out' = Say(okText, <<>>) /\ Advance(next)

\* checkPendingPods, lines 222-239.
checkPendingPods ==
    /\ In("checkPendingPods")
    /\ Check(GetPendingPods(pods), "Pending", "No pods are pending.", "checkRunningPods")
    /\ UNCHANGED fsmFields
    /\ UNCHANGED sessionVars

\* checkRunningPods, lines 241-257.
checkRunningPods ==
    /\ In("checkRunningPods")
    /\ Check(GetNonrunningPods(pods), "Not running", "All pods are running.",
             "checkReadyPods")
    /\ UNCHANGED fsmFields
    /\ UNCHANGED sessionVars

\* checkReadyPods, lines 259-275.
checkReadyPods ==
    /\ In("checkReadyPods")
    /\ Check(GetNotReadyPods(pods), "Not ready", "All pods are ready.", "getServiceName")
    /\ UNCHANGED fsmFields
    /\ UNCHANGED sessionVars

\* getServiceName with the assignment of k.svc moved before the check of
\* readInt's error.
getServiceName_AssignFirst ==
    /\ In("getServiceName")
    /\ \/ /\ Return("api error")
          /\ UNCHANGED <<out, eof, svc>>
       \/ \E svcs \in ServiceLists, in \in Readable :
            LET answer == readInt(in)
            IN  /\ out' = Say("Available services: ", Names_(svcs))
                /\ eof' = AtEOF(in)
                /\ IF answer.val \notin 0..(Len(svcs) - 1)
                   THEN Panic /\ UNCHANGED svc
                   ELSE /\ svc' = svcs[answer.val + 1]
                        /\ IF answer.err # Nil THEN Return(answer.err)
                           ELSE Advance("getServicePort")
    /\ UNCHANGED fsmFields
    /\ UNCHANGED <<k8sContext, config, k8sClient, namespace, pods, svcPort, controller,
                   containerPort, podList, deployments, tunnels>>

\* getServiceName, lines 277-298.
getServiceName ==
    /\ In("getServiceName")
    /\ \/ /\ Return("api error")
          /\ UNCHANGED <<out, eof, svc>>
       \/ \E svcs \in ServiceLists, in \in Readable :
            LET answer == readInt(in)
            IN  /\ out' = Say("Available services: ", Names_(svcs))
                /\ eof' = AtEOF(in)
                /\ IF answer.err # Nil
                   THEN Return(answer.err) /\ UNCHANGED svc
                   ELSE IF answer.val \notin 0..(Len(svcs) - 1)
                   THEN Panic /\ UNCHANGED svc
                   ELSE svc' = svcs[answer.val + 1] /\ Advance("getServicePort")
    /\ UNCHANGED fsmFields
    /\ UNCHANGED <<k8sContext, config, k8sClient, namespace, pods, svcPort, controller,
                   containerPort, podList, deployments, tunnels>>

\* getServicePort, lines 300-315.
getServicePort ==
    /\ In("getServicePort")
    /\ \E in \in Readable :
         LET answer == readInt(in)
         IN  /\ out' = Say("Available ports: ", Names_(svc.ports))
             /\ eof' = AtEOF(in)
             /\ IF answer.err # Nil
                THEN Return(answer.err) /\ UNCHANGED svcPort
                ELSE IF answer.val \notin 0..(Len(svc.ports) - 1)
                THEN Panic /\ UNCHANGED svcPort
                ELSE svcPort' = svc.ports[answer.val + 1]
                     /\ Advance("getControllerWorkload")
    /\ UNCHANGED fsmFields
    /\ UNCHANGED <<k8sContext, config, k8sClient, namespace, pods, svc, controller,
                   containerPort, podList, deployments, tunnels>>

\* Deployments(namespace).Get(name): the Deployment of that name, if any.
GetDeployment(index, name) == { d \in index : d.name = name }

\* getControllerWorkload, lines 317-327.
getControllerWorkload ==
    /\ In("getControllerWorkload")
    /\ \E index \in DeploymentIndexes, reachable \in BOOLEAN :
         LET k8sName == svc.selector
             found == GetDeployment(index, k8sName)
         IN  /\ deployments' = index
             /\ IF ~reachable
                THEN Return("api error") /\ UNCHANGED <<out, controller>>
                ELSE IF found = {}
                THEN Return("not found") /\ UNCHANGED <<out, controller>>
                ELSE /\ controller' = <<CHOOSE d \in found : TRUE>>
                     /\ out' = Say("Found backing Deployment - ", <<k8sName>>)
                     /\ Advance("getContainerPort")
    /\ UNCHANGED fsmFields
    /\ UNCHANGED <<eof, k8sContext, config, k8sClient, namespace, pods, svc, svcPort,
                   containerPort, podList, tunnels>>

RECURSIVE ScanPorts(_, _, _)
\* The inner loop of getContainerPort: the first port of the container named
\* tgt replaces cur, and the loop breaks.
ScanPorts(ps, tgt, cur) ==
    IF ps = <<>> THEN cur
    ELSE IF tgt = Head(ps).name THEN Head(ps)
    ELSE ScanPorts(Tail(ps), tgt, cur)

RECURSIVE ScanContainers(_, _, _)
\* The outer loop: every container is scanned, the break leaves only the inner.
ScanContainers(cs, tgt, cur) ==
    IF cs = <<>> THEN cur
    ELSE ScanContainers(Tail(cs), tgt, ScanPorts(Head(cs), tgt, cur))

\* getContainerPort, lines 329-342.
getContainerPort ==
    /\ In("getContainerPort")
    /\ IF controller = <<>>
       THEN Panic /\ UNCHANGED <<out, containerPort>>
       ELSE /\ containerPort' = ScanContainers(controller[1].containers,
                                               svcPort.targetPort.StrVal, containerPort)
            /\ out' = Say("Identified pod port: ", <<ToString(containerPort'.containerPort)>>)
            /\ Advance("getControllerPods")
    /\ UNCHANGED fsmFields
    /\ UNCHANGED <<eof, k8sContext, config, k8sClient, namespace, pods, svc, svcPort,
                   controller, podList, deployments, tunnels>>

RECURSIVE MemberPods_Prepend(_, _)
\* The loop with each matching pod put in front of the result.
MemberPods_Prepend(ps, tgt) ==
    IF ps = <<>> THEN <<>>
    ELSE MemberPods_Prepend(Tail(ps), tgt)
         \o (IF tgt = Head(ps).label THEN <<Head(ps)>> ELSE <<>>)

RECURSIVE MemberPods(_, _)
\* The loop of getControllerPods: the pods whose label equals tgt.
MemberPods(ps, tgt) ==
    IF ps = <<>> THEN <<>>
    ELSE (IF tgt = Head(ps).label THEN <<Head(ps)>> ELSE <<>>) \o MemberPods(Tail(ps), tgt)

\* getControllerPods storing the filtered list over the snapshot it read.
getControllerPods_InPlace ==
    /\ In("getControllerPods")
    /\ IF controller = <<>>
       THEN Panic /\ UNCHANGED <<pods, podList>>
       ELSE /\ pods' = MemberPods(pods, controller[1].label)
            /\ podList' = pods'
            /\ Advance("validateContainerPort")
    /\ UNCHANGED fsmFields
    /\ UNCHANGED <<out, eof, k8sContext, config, k8sClient, namespace, svc, svcPort,
                   controller, containerPort, deployments, tunnels>>

\* getControllerPods, lines 344-357.
getControllerPods ==
    /\ In("getControllerPods")
    /\ IF controller = <<>>
       THEN Panic /\ UNCHANGED podList
       ELSE podList' = MemberPods(pods, controller[1].label)
            /\ Advance("validateContainerPort")
    /\ UNCHANGED fsmFields
    /\ UNCHANGED <<out, eof, k8sContext, config, k8sClient, namespace, pods, svc, svcPort,
                   controller, containerPort, deployments, tunnels>>

(***************************************************************************)
(* validateContainerPort, lines 359-415, and the goroutine it starts for    *)
(* each pod (lines 393-395).  A tunnel is dialing until ForwardPorts either *)
(* listens on the local port and closes Ready, or returns an error; it      *)
(* forwards until its stop channel is closed; once ForwardPorts has         *)
(* returned, the goroutine is sending the result on doneChan.               *)
(***************************************************************************)
StatusCodes == {200, 399, 400, 503}
LocalPort == 8080

Tunnel(pod, rt) == [pod |-> pod, rt |-> rt, st |-> "dialing", ready |-> FALSE, stop |-> FALSE]
\* portforward.New rejects a port mapping whose remote port is not 1..65535.
ValidPorts == 1..65535

\* Lines 360-363: the REST client.
validateContainerPort ==
    /\ In("validateContainerPort")
    /\ \/ Return("rest client error")
       \/ /\ stack' = SetTop(stack, [Top EXCEPT !.pc = "loop", !.i = 1])
          /\ status' = status
    /\ UNCHANGED fsmFields
    /\ UNCHANGED out
    /\ UNCHANGED sessionVars

\* The loop leaving the last pod of the list out.
RangeDone_SkipLast(i) == i >= Len(podList)

\* Line 365: for _, pod := range k.podList is over after the last pod.
RangeDone(i) == i > Len(podList)

\* Lines 365-396 and 413: the next pod's port forwarder is built and its
\* goroutine started, or, after the last pod, the machine changes to finish.
\* The error of RoundTripperFor is overwritten by that of portforward.New.
OpenTunnel ==
    /\ Running /\ Top.fn = "validateContainerPort" /\ Top.pc = "loop"
    /\ IF RangeDone(Top.i)
       THEN Advance("finish") /\ UNCHANGED <<out, tunnels>>
       ELSE \E rt \in BOOLEAN :
              /\ out' = Say("Checking accessibility of port for pod", <<podList[Top.i].name>>)
              /\ IF containerPort.containerPort \notin ValidPorts
                 THEN Return("port forward error") /\ UNCHANGED tunnels
                 ELSE /\ tunnels' = Append(tunnels, Tunnel(podList[Top.i].name, rt))
                      /\ stack' = SetTop(stack, [Top EXCEPT !.pc = "wait"])
                      /\ status' = status
    /\ UNCHANGED fsmFields
    /\ UNCHANGED <<eof, k8sContext, config, k8sClient, namespace, pods, svc, svcPort,
                   controller, containerPort, podList, deployments>>

\* The verdict with status 400 counted as accessible.
Accessible_Inclusive(code) == code <= 400

\* Line 403: resp.StatusCode < 400.
Accessible(code) == code < 400

\* Lines 396-410: past <-pf.Ready, the GET, the verdict, close(stopChan).
Probe ==
    /\ Running /\ Top.fn = "validateContainerPort" /\ Top.pc = "wait"
    /\ tunnels[Len(tunnels)].ready
    /\ \/ /\ Return("probe error")
          /\ UNCHANGED <<out, tunnels>>
       \/ \E code \in StatusCodes :
            /\ out' = Say(IF Accessible(code) THEN "Pod port accessible."
                          ELSE "Pod port inaccessible.", <<tunnels[Len(tunnels)].pod>>)
            /\ tunnels' = [tunnels EXCEPT ![Len(tunnels)].stop = TRUE]
            /\ stack' = SetTop(stack, [Top EXCEPT !.pc = "loop", !.i = @ + 1,
                                                  !.code = code])
            /\ status' = status
    /\ UNCHANGED fsmFields
    /\ UNCHANGED <<eof, k8sContext, config, k8sClient, namespace, pods, svc, svcPort,
                   controller, containerPort, podList, deployments>>

PortInUse(t) == \E u \in 1..Len(tunnels) : u # t /\ tunnels[u].st = "forwarding"

\* pf.ForwardPorts() up to readiness: the dial and the listen on the local
\* port.  With no round tripper the dialer has a nil upgrader: the dial fails
\* or dereferences it.
ForwardPorts(t) ==
    /\ Running /\ tunnels[t].st = "dialing"
    /\ \/ /\ tunnels' = [tunnels EXCEPT ![t].st = "sending"]
          /\ status' = status
       \/ /\ ~tunnels[t].rt
          /\ status' = "panic"
          /\ tunnels' = tunnels
       \/ /\ tunnels[t].rt /\ ~PortInUse(t)
          /\ tunnels' = [tunnels EXCEPT ![t].st = "forwarding", ![t].ready = TRUE]
          /\ status' = status
    /\ UNCHANGED <<State, StateDirectory, ErrorHandler, stack, out>>
    /\ UNCHANGED <<eof, k8sContext, config, k8sClient, namespace, pods, svc, svcPort,
                   controller, containerPort, podList, deployments>>

\* pf.ForwardPorts() returns once the stop channel is closed.
ForwardStop(t) ==
    /\ Running /\ tunnels[t].st = "forwarding" /\ tunnels[t].stop
    /\ tunnels' = [tunnels EXCEPT ![t].st = "sending"]
    /\ UNCHANGED <<State, StateDirectory, ErrorHandler, stack, status, out>>
    /\ UNCHANGED <<eof, k8sContext, config, k8sClient, namespace, pods, svc, svcPort,
                   controller, containerPort, podList, deployments>>

(***************************************************************************)
(* The specifications.                                                      *)
(***************************************************************************)
\* A run of kubetrbl: NewKubetrbl().Start().
Init == NewKubetrbl

Next ==
    \/ Start
    \/ ChangeExit \/ ChangeEnter \/ Update \/ HandleError \/ FsmReturn
    \/ HandlerReturn
    \/ welcome \/ getKubeConfig \/ createK8sClient \/ getNamespace \/ countPods
    \/ checkPendingPods \/ checkRunningPods \/ checkReadyPods
    \/ getServiceName \/ getServicePort \/ getControllerWorkload
    \/ getContainerPort \/ getControllerPods
    \/ validateContainerPort \/ OpenTunnel \/ Probe
    \/ finish
    \/ \E t \in 1..Len(tunnels) : ForwardPorts(t)
    \/ \E t \in 1..Len(tunnels) : ForwardStop(t)

Spec == Init /\ [][Next]_vars

\* The same run with the Go scheduler's guarantee: a goroutine that can take a
\* step (the main flow, a port-forward goroutine) eventually takes one.
SpecFair == Init /\ [][Next]_vars /\ WF_vars(Next)

\* A client of package fsm with either error handler installed.
InitFSM ==
    /\ NewFSM
    /\ ErrorHandler \in {"default", "kubetrbl"}
    /\ eof = FALSE
    /\ k8sContext = FALSE /\ config = FALSE /\ k8sClient = FALSE
    /\ namespace = "" /\ pods = <<>>
    /\ svc = ZeroSvc /\ svcPort = ZeroSvcPort
    /\ controller = <<>> /\ containerPort = ZeroContainerPort
    /\ podList = <<>>
    /\ deployments = {}
    /\ tunnels = <<>>

NextFSM ==
    \/ \E name \in Names, state \in States : Register(name, state)
    \/ \E name \in Names : Unregister(name)
    \/ \E name \in Names : ClientChange(name)
    \/ ClientUpdate
    \/ ChangeExit \/ ChangeEnter \/ Update \/ HandleError \/ FsmReturn
    \/ Callback

SpecFSM == InitFSM /\ [][NextFSM]_vars

(***************************************************************************)
(* Properties of package fsm, checked under SpecFSM.                        *)
(***************************************************************************)
\* The frames of Change whose Exit callback returned an error.
ExitFailed(f) == f.fn = "Change" /\ f.pc = "lookup" /\ f.err # Nil

\* C1: when the Exit callback of the current state returns an error, the
\* error handler is invoked and Change aborts: once the handler has returned,
\* Change returns with the current state still the prior one, without looking
\* the target up or invoking its Enter callback.
C1_ExitErrorAborts ==
    [][(Running /\ ExitFailed(Top)) => (stack' = Pop(stack) /\ State' = State)]_vars

\* C2: Change to a name that is not registered is fatal: the call never
\* returns, the Go panic is what its lookup leads to, and the name does not
\* become the current state.
C2_UnregisteredIsFatal ==
    [][\A k \in 1..Len(stack) :
         (status = "running" /\ stack[k].fn = "Change"
            /\ stack[k].arg \notin DOMAIN StateDirectory)
         => /\ Len(stack') >= k
            /\ stack'[k].fn = "Change" /\ stack'[k].arg = stack[k].arg
            /\ stack'[k].pc # "ret"
            /\ (State' = stack[k].arg => State = stack[k].arg)
            /\ ((k = Len(stack) /\ stack[k].pc = "lookup") => status' = "panic")]_vars

\* A Change to an unregistered name has panicked while a state was active
\* whose Exit callback had failed and been handled first.
C2_Witness ==
    /\ status = "panic" /\ State # ""
    /\ Top.fn = "Change" /\ Top.arg \notin DOMAIN StateDirectory /\ Top.err # Nil

(***************************************************************************)
(* Properties of a run of kubetrbl, checked under Spec.                     *)
(***************************************************************************)
\* The position of a state in the pipeline, 0 for no state.
Idx(name) == IF name = "" THEN 0 ELSE CHOOSE k \in 1..Len(Pipeline) : Pipeline[k] = name

\* An activation of the error handler for a failed Enter or Update callback.
Reentry(k) == stack[k].fn = "ErrorHandler" /\ stack[k].hook \in {"Enter", "Update"}

\* C3: when an Enter or Update callback of the current state X returns an
\* error, the handler re-enters exactly X: X is current when the handler
\* starts, the handler calls Change(X), X stays current until that Change
\* enters, and the callback it invokes is the Enter callback of X (which is
\* running, or has failed in turn and is being handled).
C3_ReenterSameState ==
    \A k \in 1..Len(stack) :
        Reentry(k) =>
            LET X == stack[k].arg
            IN  /\ (k = Len(stack) /\ stack[k].pc = "start") => State = X
                /\ k < Len(stack) => (stack[k + 1].fn = "Change" /\ stack[k + 1].arg = X)
                /\ (k + 1 = Len(stack) /\ stack[k + 1].pc \in {"start", "lookup"})
                   => State = X
                /\ k + 2 <= Len(stack)
                   => /\ stack[k + 2].hook = "Enter"
                      /\ stack[k + 2].arg = X
                      /\ stack[k + 2].fn \in {StateDirectory[X].Enter, "ErrorHandler"}

\* createK8sClient, the Update callback of getKubeConfig, has failed and the
\* handler has re-entered getKubeConfig.
C3_Witness ==
    \E k \in 1..Len(stack) :
        /\ Reentry(k) /\ stack[k].hook = "Update" /\ stack[k].err = "client error"
        /\ k + 2 <= Len(stack) /\ stack[k + 2].fn = "getKubeConfig"

\* C4: the re-entry of the error handler does not recurse without bound when
\* a step keeps failing (the input at end-of-file, an API call that fails on
\* every attempt): the nested activations never exhaust the stack, whatever
\* its limit.
C4_BoundedReentry == status # "overflow"

\* C5: the pipeline is strictly ordered: the current state only ever changes
\* to its immediate successor in Pipeline, and every call of Change names the
\* current state (an error re-entry) or its immediate successor.
C5_StrictOrder ==
    /\ [][State' # State => Idx(State') = Idx(State) + 1]_vars
    /\ [](\A k \in 1..Len(stack) :
            (stack[k].fn = "Change" /\ k = Len(stack) /\ stack[k].pc \in {"start", "lookup"})
            => /\ stack[k].arg \in { Pipeline[j] : j \in 1..Len(Pipeline) }
               /\ Idx(stack[k].arg) \in {Idx(State), Idx(State) + 1}
               /\ Idx(stack[k].arg) >= 1)

\* The machine has reached finish in a run that re-entered a state on the way.
C5_Witness == State = "finish" /\ ErrNest(stack) > 0

IndexReaders == {"getNamespace", "getServiceName", "getServicePort"}

\* C6: a selection index that is no position of the displayed list fails with
\* an error that goes to the error handler; the run is not aborted in a state
\* that reads an index.
C6_OutOfRangeRecovers == ~(status = "panic" /\ stack # <<>> /\ Top.fn \in IndexReaders)

SessionFields == <<namespace, pods, svc, svcPort, controller, containerPort, podList>>
BadInt(f) == f.fn = "ErrorHandler" /\ f.err = "invalid syntax"
\* The handler of a failed strconv.Atoi is about to run, or its Change has not
\* entered the state yet.
Recovering ==
    /\ Running /\ Len(stack) >= 2
    /\ \/ BadInt(Top) /\ Top.pc = "start"
       \/ /\ Top.fn = "Change" /\ Top.pc \in {"start", "lookup"}
          /\ BadInt(stack[Len(stack) - 1])
RecoveringState == IF BadInt(Top) THEN Top.arg ELSE stack[Len(stack) - 1].arg
\* The step of an index-reading handler that reads a non-numeric line.
FailsAtoi ==
    /\ Running /\ Top.fn \in IndexReaders /\ Top.pc = "start"
    /\ Len(stack') = Len(stack)
    /\ BadInt(stack'[Len(stack')]) /\ stack'[Len(stack')].pc = "start"

\* C7: in a state that reads an index, non-numeric input makes readInt fail;
\* the failing step and the recovery leave every session field and the
\* current state as they were, and the recovery ends with the Enter callback
\* of the same state started again (the re-prompt).
C7_BadIntegerReprompts ==
    [][/\ FailsAtoi => /\ UNCHANGED SessionFields
                       /\ State' = State
                       /\ stack'[Len(stack')].arg = State
       /\ Recovering => /\ UNCHANGED SessionFields
                        /\ State' = RecoveringState
                        /\ \/ Recovering'
                           \/ /\ stack'[Len(stack')].fn = RecoveringState
                              /\ stack'[Len(stack')].hook = "Enter"
                              /\ stack'[Len(stack')].pc = "start"]_vars

\* getServicePort prompts again after a non-numeric answer, the service
\* selected before still in the session.
C7_Witness ==
    /\ Running /\ Len(stack) >= 3
    /\ Top.fn = "getServicePort" /\ Top.pc = "start"
    /\ BadInt(stack[Len(stack) - 2]) /\ stack[Len(stack) - 2].arg = "getServicePort"
    /\ svc = ApiSvc

NoPending == \A k \in DOMAIN pods : pods[k].phase # "Pending"
AllRunning == \A k \in DOMAIN pods : pods[k].phase = "Running"
NoneUnready ==
    \A k \in DOMAIN pods : \A c \in DOMAIN pods[k].conditions :
        ~(pods[k].conditions[c].type = "Ready" /\ pods[k].conditions[c].status # "True")
\* The step calls Change(next).
Advanced(next) ==
    /\ Len(stack') = Len(stack) + 1
    /\ stack'[Len(stack')].fn = "Change" /\ stack'[Len(stack')].arg = next
\* The step returns nil to Change without a transition.
Stayed == stack' = Pop(stack) /\ State' = State /\ status' = status

\* C8: health gating.  checkPendingPods advances to checkRunningPods iff no
\* pod is Pending, checkRunningPods to checkReadyPods iff every pod is
\* Running, checkReadyPods to getServiceName iff no pod has a Ready condition
\* that is not true; a check that does not advance returns, and no state after
\* a check is current unless the snapshot passes it.
C8_HealthGating ==
    /\ [][/\ In("checkPendingPods")
             => IF NoPending THEN Advanced("checkRunningPods") ELSE Stayed
          /\ In("checkRunningPods")
             => IF AllRunning THEN Advanced("checkReadyPods") ELSE Stayed
          /\ In("checkReadyPods")
             => IF NoneUnready THEN Advanced("getServiceName") ELSE Stayed]_vars
    /\ [](/\ Idx(State) > Idx("checkPendingPods") => NoPending
          /\ Idx(State) > Idx("checkRunningPods") => AllRunning
          /\ Idx(State) > Idx("checkReadyPods") => NoneUnready)

\* The run has ended in checkReadyPods: one pod is not ready, another has no
\* Ready condition at all.
C8_Witness ==
    /\ stack = <<>> /\ State = "checkReadyPods"
    /\ ~NoneUnready
    /\ \E k \in DOMAIN pods : pods[k].conditions = <<>>

\* C9: once countPods has stored the pod snapshot, no step changes it: not
\* the health checks, not getControllerPods or validateContainerPort, not an
\* error re-entry; the only step that writes it is the fetch of countPods.
C9_SnapshotReadOnly ==
    [][/\ Idx(State) > Idx("countPods") => pods' = pods
       /\ pods' # pods => In("countPods")]_vars

\* validateContainerPort runs on member pods that are only part of the
\* snapshot, which is still whole.
C9_Witness ==
    /\ State = "validateContainerPort" /\ tunnels # <<>>
    /\ Len(pods) = MaxPods /\ Len(podList) = 1

\* The Deployments whose identity label equals the service's selector value.
Matching(index) == { d \in index : d.label = svc.selector }

\* C10: getControllerWorkload advances to getContainerPort only when exactly
\* one Deployment of the namespace carries the label value the service
\* selects, and then with that Deployment as the controller.
C10_ResolveByLabel ==
    [][(In("getControllerWorkload") /\ Advanced("getContainerPort"))
       => /\ Cardinality(Matching(deployments')) = 1
          /\ controller'[1] \in Matching(deployments')]_vars

\* The service port selected has a numeric target.
NumericTarget == svcPort.targetPort.Type = "Int"
SymbolicTarget == svcPort.targetPort.Type = "String"

\* C11: with a service port whose target is numeric, getContainerPort
\* resolves the container port to that number, whatever containers and ports
\* the controller declares.
C11_NumericTargetKept ==
    [][(In("getContainerPort") /\ NumericTarget /\ controller # <<>>)
       => containerPort'.containerPort = svcPort.targetPort.IntVal]_vars

RECURSIVE Flatten(_)
\* The ports of the containers, in declared order.
Flatten(cs) == IF cs = <<>> THEN <<>> ELSE Head(cs) \o Flatten(Tail(cs))
\* The positions, in declared order, of the ports named as the target.
Exposing(ports) == { j \in 1..Len(ports) : ports[j].name = svcPort.targetPort.StrVal }
FirstExposing(ports) == CHOOSE j \in Exposing(ports) : \A h \in Exposing(ports) : j <= h

\* C12: with a symbolic target, getContainerPort resolves to the first port,
\* in declared order of containers and of ports within a container, whose
\* name equals the target; a port of the same name in a later container is
\* ignored.
C12_FirstMatchWins ==
    [][(In("getContainerPort") /\ SymbolicTarget /\ controller # <<>>)
       => LET ports == Flatten(controller[1].containers)
          IN  Exposing(ports) # {} => containerPort' = ports[FirstExposing(ports)]]_vars

\* C13: with a symbolic target that no container of the controller exposes,
\* getContainerPort fails: it does not call Change(getControllerPods), and the
\* machine is never past getContainerPort with port 0 as the resolved port.
C13_MissingPortFails ==
    /\ [][(In("getContainerPort") /\ SymbolicTarget /\ controller # <<>>
             /\ Exposing(Flatten(controller[1].containers)) = {})
          => ~Advanced("getControllerPods")]_vars
    /\ []((Idx(State) > Idx("getContainerPort") /\ SymbolicTarget)
          => containerPort.containerPort # 0)

\* The positions in the snapshot of the pods labelled as the controller.
Members == { k \in DOMAIN pods : pods[k].label = controller[1].label }
\* The j-th of them, in snapshot order.
Member(j) == CHOOSE k \in Members : Cardinality({ h \in Members : h < k }) = j - 1

\* C14: getControllerPods stores exactly the pods of the snapshot whose
\* identity label equals the controller's, in snapshot order, none omitted,
\* added or repeated; it raises no error and calls
\* Change(validateContainerPort), also when no pod matches.
C14_MembersExactly ==
    [][(In("getControllerPods") /\ controller # <<>>)
       => /\ Len(podList') = Cardinality(Members)
          /\ \A j \in 1..Len(podList') : podList'[j] = pods[Member(j)]
          /\ Advanced("validateContainerPort")
          /\ ErrNest(stack') = ErrNest(stack)
          /\ status' = "running"]_vars

\* The run has finished with nothing to probe: the snapshot is full and none
\* of its pods is labelled as the controller.
C14_Witness ==
    /\ State = "finish" /\ stack = <<>>
    /\ Len(pods) = MaxPods /\ podList = <<>> /\ controller # <<>>

\* The main flow stands at <-pf.Ready or behind it, before the GET.
Waiting == Running /\ Top.fn = "validateContainerPort" /\ Top.pc = "wait"
LastTunnel == tunnels[Len(tunnels)]

\* C15: a probe that fails, by its status code or by an error of the request,
\* is that pod's outcome only: the step that ends the probe raises no error
\* to the error handler and leaves validateContainerPort at the next pod of
\* the list, so that every member pod is probed before finish.
C15_ProbeFailuresStayLocal ==
    [][(Waiting /\ LastTunnel.ready /\ stack' # stack)
       => /\ ErrNest(stack') = ErrNest(stack)
          /\ Len(stack') = Len(stack)
          /\ stack'[Len(stack')].pc = "loop" /\ stack'[Len(stack')].i = Top.i + 1]_vars

\* C16: every tunnel that became ready has its stop signal sent when the
\* iteration for its pod is over, however the probe ended: a ready tunnel
\* without the signal is the one being probed.
C16_StopOnEveryExit ==
    \A t \in DOMAIN tunnels :
        (tunnels[t].ready /\ ~tunnels[t].stop) => (Waiting /\ t = Len(tunnels))

\* The tunnels whose ForwardPorts has not returned.
Active == { t \in DOMAIN tunnels : tunnels[t].st \in {"dialing", "forwarding"} }

\* C17: the tunnels are strictly sequential: in every interleaving of the
\* main flow with the port-forward goroutines at most one tunnel is active,
\* the next pod's being started only when the previous one has ended.
C17_OneTunnelAtATime == Cardinality(Active) <= 1

\* C18: the main flow blocks until the tunnel is ready or has failed: the
\* probe is issued on a ready tunnel only, and when ForwardPorts returns an
\* error before readiness the main flow is eventually unblocked.
C18_BlocksUntilReadyOrFailed ==
    /\ [][(Waiting /\ stack' # stack) => LastTunnel.ready]_vars
    /\ (Waiting /\ LastTunnel.st = "sending" /\ ~LastTunnel.ready) ~> ~Waiting

\* C19: an error in acquiring the tunnel is returned by validateContainerPort
\* and handled: in particular no port-forward goroutine is started with the
\* round tripper that failed to build.
C19_AcquireErrorsPropagate == \A t \in DOMAIN tunnels : tunnels[t].rt

\* validateContainerPort has just classified a response.
Classified(f) == f.fn = "validateContainerPort" /\ f.pc = "loop" /\ f.i > 1

\* C20: the pod is reported accessible iff the status code of the response to
\* the GET is below 400, and inaccessible otherwise, for every status code.
C20_ProbeClassification ==
    (Running /\ Classified(Top))
    => /\ out.kind \in {"Pod port accessible.", "Pod port inaccessible."}
       /\ out.kind = "Pod port accessible." <=> Top.code < 400
       /\ out.items = <<podList[Top.i - 1].name>>

\* The second pod of the list answered 400 and was reported inaccessible.
C20_Witness ==
    /\ Running /\ Classified(Top) /\ Top.i = 3 /\ Top.code = 400
    /\ out.kind = "Pod port inaccessible."

\* The conditions of a trouble-free run: no call, input or tunnel has failed,
\* every pod fetched passes the three health checks, and the port resolved is
\* one a container exposes.
TroubleFree ==
    /\ status = "running" /\ ErrNest(stack) = 0
    /\ NoPending /\ AllRunning /\ NoneUnready
    /\ \A t \in DOMAIN tunnels : tunnels[t].rt /\ (tunnels[t].st = "sending" => tunnels[t].ready)
    /\ Idx(State) > Idx("getContainerPort")
       => (SymbolicTarget /\ containerPort.containerPort \in ValidPorts)
\* The run is over in finish, one tunnel opened for each member pod, in
\* snapshot order.
FinishedAllProbed ==
    /\ State = "finish" /\ stack = <<>> /\ controller # <<>>
    /\ Len(tunnels) = Cardinality(Members)
    /\ \A j \in 1..Len(tunnels) : tunnels[j].pod = pods[Member(j)].name /\ tunnels[j].stop

\* C21: a run in which nothing goes wrong (every pod Running and Ready, every
\* call and input good, the target port exposed, every tunnel ready and
\* answered) eventually reaches finish, having probed exactly the pods
\* labelled as the controller, each once.
C21_HealthyRunFinishes == ([]TroubleFree) => <>FinishedAllProbed

\* The run has finished after probing every pod of a full snapshot.
C21_Witness == FinishedAllProbed /\ Len(tunnels) = MaxPods /\ out.kind = "See ya!"

\* C22: finish is terminal: once it is the current state it stays so, no
\* Change is called and no lifecycle callback is invoked; the main flow only
\* returns from the handlers and error handlers it is nested in.
C22_FinishTerminal ==
    [][State = "finish"
       => /\ State' = "finish"
          /\ Len(stack') <= Len(stack)
          /\ stack' = SubSeq(stack, 1, Len(stack'))]_vars

\* finish is current and the main flow is returning through an error handler
\* that had re-entered an earlier state.
C22_Witness ==
    /\ State = "finish" /\ Running
    /\ Top.fn = "ErrorHandler" /\ Top.pc = "ret" /\ Top.arg # "finish"

\* FSM.Update is about to run, or has run and is about to return.
Updating(pc) == Running /\ Top.fn = "Update" /\ Top.pc = pc
NoStateWarning == "Update() called on FSM without active state."

\* C23: Update with no active state only warns: no callback runs, the error
\* handler is not invoked, the current state and the directory are unchanged.
\* With an active state that defines Update, the callback is invoked, once
\* (Update then only returns), and the error handler is invoked iff the
\* callback returns an error.
C23_UpdateContract ==
    [][/\ (Updating("start") /\ State = "")
          => /\ stack' = SetTop(stack, [Top EXCEPT !.pc = "ret"])
             /\ out'.kind = NoStateWarning
             /\ State' = State /\ StateDirectory' = StateDirectory
       /\ (Updating("start") /\ State # "" /\ Lookup(StateDirectory, State).Update # Nil)
          => /\ Len(stack') = Len(stack) + 1
             /\ stack'[Len(stack')].fn = StateDirectory[State].Update
             /\ stack'[Len(stack')].hook = "Update"
             /\ stack'[Len(stack')].pc = "start"
             /\ stack'[Len(stack) ].pc = "ret"
       /\ Updating("ret") => stack' = Pop(stack)
       /\ (Running /\ Top.hook = "Update" /\ Top.fn # "ErrorHandler" /\ Top.pc = "start"
             /\ stack[Len(stack) - 1].fn = "Update" /\ status' = "running")
          => \/ stack' = Pop(stack)
             \/ /\ Len(stack') = Len(stack)
                /\ stack'[Len(stack')].fn = "ErrorHandler"
                /\ stack'[Len(stack')].err # Nil
                /\ stack'[Len(stack') - 1].err = stack'[Len(stack')].err]_vars

\* Update was called with states registered but none active, and has warned.
C23_Witness ==
    /\ Updating("ret") /\ State = "" /\ out.kind = NoStateWarning
    /\ DOMAIN StateDirectory # {} /\ ErrNest(stack) = 0

\* The state callbacks that have been invoked and have not returned.
ActiveCallbacks ==
    { k \in 1..Len(stack) : stack[k].fn \in Handlers /\ stack[k].hook \in {"Enter", "Update"} }

\* C24: each handler runs to completion before the next transition: no
\* callback of a state is still executing while Change to another state is
\* performed or another callback runs, so at most one state callback is
\* active at any time.
C24_OneHandlerAtATime ==
    /\ Cardinality(ActiveCallbacks) <= 1
    /\ (Running /\ Top.fn = "Change") => ActiveCallbacks = {}

\* The current state is the named one or a later one of the pipeline.
AtOrPast(name) == Idx(State) >= Idx(name)

\* C25: the session holds what the current state needs: a namespace from
\* countPods on, a selected service from getServicePort on, a selected
\* service port from getControllerWorkload on, a resolved controller from
\* getContainerPort on, and a resolved container port in
\* validateContainerPort.
C25_SessionPreconditions ==
    /\ AtOrPast("countPods") => namespace # ""
    /\ AtOrPast("getServicePort") => svc # ZeroSvc
    /\ AtOrPast("getControllerWorkload") => svcPort # ZeroSvcPort
    /\ AtOrPast("getContainerPort") => controller # <<>>
    /\ State = "validateContainerPort" => containerPort # ZeroContainerPort

\* The names of the pods of the snapshot that satisfy Test, in snapshot order.
AffectedNames(Test(_)) ==
    LET hit == { k \in DOMAIN pods : Test(pods[k]) }
        nth(j) == CHOOSE k \in hit : Cardinality({ h \in hit : h < k }) = j - 1
    IN  [j \in 1..Cardinality(hit) |-> pods[nth(j)].name]
HasUnreadyCondition(pod) ==
    \E c \in DOMAIN pod.conditions :
        pod.conditions[c].type = "Ready" /\ pod.conditions[c].status # "True"
\* The step of a health check that finds affected pods.
Reports(name) == In(name) /\ Stayed

Terminated(t) == t.st \notin {"dialing", "forwarding", "sending"}

\* C27: every port-forward goroutine terminates once its stop signal is
\* sent: when the run has reached finish, eventually no goroutine is running
\* or blocked on doneChan.
C27_ForwardersTerminate ==
    (State = "finish") ~> (\A t \in DOMAIN tunnels : Terminated(tunnels[t]))

====
